---- MODULE Spec2Model ----
(***************************************************************************)
(* Model of the T67XX CO2 sensor driver (package t67xx):                   *)
(*   - bitmask.go helpers: Bitmask.IsSet / ListDescriptions / ListValues   *)
(*   - T67XX.go: the command/response protocol over the i2c device         *)
(*   - the accuracy timing helpers (secondsSinceSystemBoot, ...)           *)
(* Three specifications share the module: Spec (protocol driver),          *)
(* SpecTiming (warm-up timing) and SpecBitmask (bit field decoder).        *)
(***************************************************************************)
EXTENDS Integers, Sequences, FiniteSets, TLC

VARIABLES
    \* ---- protocol driver (T67XX.go) ----
    pc,         \* position of the caller inside the current driver method
    op,         \* the driver method being (or last) executed
    address,    \* argument of SetAddress
    trace,      \* bus and sleep events of the current invocation, in order
    resp,       \* the bytes the last successful Device.Read filled in
    ret,        \* [val, err] returned by the method
    stdout,     \* what PrintStatus printed (the joined descriptions)
    \* ---- accuracy timing ----
    procStat,   \* /proc/stat: whether it can be opened, and its lines
    now,        \* current time, in ticks since the epoch
    tpc,        \* position of the timing caller
    tret,       \* [val, err] of the last timing call
    results,    \* values returned by successive SensorIsAtFullAccuracy calls
    tcall,      \* the timing method being (or last) executed
    wait,       \* the SleepUntilFullAccuracy invocation: when called, the
                \* duration handed to time.After, when it returned
    \* ---- bit field decoder ----
    mask,       \* receiver of the Bitmask method
    table,      \* the []BitValue argument
    test,       \* the argument of IsSet
    bret,       \* results of the decoder calls made on mask, table and test
    \* ---- two execution contexts sharing one driver ----
    cpc,        \* position of each context inside its driver method
    cop,        \* the driver method each context is (or was last) executing
    ccalls,     \* how many driver methods each context has invoked
    bus,        \* the writes and reads the device has seen, in order
    serialized, \* whether the callers run their operations one at a time
    \* ---- examples/wait_for_full_accuracy.go ----
    started,    \* the background goroutine has been launched
    closed,     \* accuracyChan has been closed
    exited,     \* the process has ended through log.Fatal
    iter        \* the branch of the select the main loop is in

driverVars == <<pc, op, address, trace, resp, ret, stdout>>
timingVars == <<procStat, now, tpc, tret, results, tcall, wait>>
bitVars    == <<mask, table, test, bret>>
concVars   == <<cpc, cop, ccalls, bus, serialized>>
exVars     == <<started, closed, exited, iter>>
vars       == <<pc, op, address, trace, resp, ret, stdout,
                procStat, now, tpc, tret, results, tcall, wait,
                mask, table, test, bret,
                cpc, cop, ccalls, bus, serialized,
                started, closed, exited, iter>>

-----------------------------------------------------------------------------
(* Bounds of the model *)

\* longest []BitValue table explored
MaxTableLen == 3
\* masks 0..MaxMask are explored exhaustively (plus a few high-bit masks)
MaxMask == 15

-----------------------------------------------------------------------------
(* Bitmask (uint16) arithmetic *)

RECURSIVE BitAnd(_, _)
\* Go's a & b on Bitmask
BitAnd(a, b) ==
    IF a = 0 \/ b = 0 THEN 0
    ELSE (a % 2) * (b % 2) + 2 * BitAnd(a \div 2, b \div 2)

RECURSIVE BitXor(_, _)
\* Go's a ^ b on Bitmask
BitXor(a, b) ==
    IF a = 0 THEN b
    ELSE IF b = 0 THEN a
    ELSE (((a % 2) + (b % 2)) % 2) + 2 * BitXor(a \div 2, b \div 2)

\* BitValue{value, description}
BitValue(v, d) == [value |-> v, description |-> d]

RECURSIVE ListDescriptionsLoop(_, _, _, _)
\* the for-range loop of ListDescriptions, from index i on
ListDescriptionsLoop(values, i, currentValue, list) ==
    IF i > Len(values) THEN list
    ELSE LET bv == values[i] IN
         IF BitAnd(currentValue, bv.value) # 0
         THEN ListDescriptionsLoop(values, i + 1,
                                   BitXor(currentValue, bv.value),
                                   Append(list, bv.description))
         ELSE ListDescriptionsLoop(values, i + 1, currentValue, list)

\* func (value Bitmask) ListDescriptions(values []BitValue) []string
ListDescriptions(value, values) == ListDescriptionsLoop(values, 1, value, <<>>)

RECURSIVE ListValuesLoopNoClear(_, _, _, _)
\* a loop of ListValues that leaves currentValue as it is after emitting
ListValuesLoopNoClear(values, i, currentValue, list) ==
    IF i > Len(values) THEN list
    ELSE LET bv == values[i] IN
         IF BitAnd(currentValue, bv.value) # 0
         THEN ListValuesLoopNoClear(values, i + 1, currentValue,
                                    Append(list, bv.value))
         ELSE ListValuesLoopNoClear(values, i + 1, currentValue, list)

RECURSIVE ListValuesLoop(_, _, _, _)
\* the for-range loop of ListValues, from index i on
ListValuesLoop(values, i, currentValue, list) ==
    IF i > Len(values) THEN list
    ELSE LET bv == values[i] IN
         IF BitAnd(currentValue, bv.value) # 0
         THEN ListValuesLoop(values, i + 1,
                             BitXor(currentValue, bv.value),
                             Append(list, bv.value))
         ELSE ListValuesLoop(values, i + 1, currentValue, list)

\* func (value Bitmask) ListValues(values []BitValue) []Bitmask
ListValues(value, values) == ListValuesLoop(values, 1, value, <<>>)

\* func (value Bitmask) IsSet(test Bitmask) bool
IsSet(value, t) == IF BitAnd(value, t) # 0 THEN TRUE ELSE FALSE

-----------------------------------------------------------------------------
(* Accuracy timing: /proc/stat parsing and the warm-up computation *)

\* clock resolution of the model: ticks per second (time.Duration is finer
\* than one second, so the clock can stand between two whole seconds)
TicksPerSecond == 2
\* seconds explored on either side of the end of the warm-up
WindowSecs == 2
\* most SensorIsAtFullAccuracy calls in one behaviour
MaxCalls == 3

\* the nil error; a non-nil error is the chain of its messages, outermost first
Nil == <<>>

\* /proc/stat as os.Open finds it: a readable file holding these lines
File(lines) == [present |-> TRUE, lines |-> lines]

\* /proc/stat cannot be opened: os.Open returns an error
Absent == [present |-> FALSE, lines |-> <<>>]

\* errors.Wrap(err, message)
Wrap(err, message) == <<message>> \o err

Digits == <<"0", "1", "2", "3", "4", "5", "6", "7", "8", "9">>

IsDigit(c) == \E i \in 1..Len(Digits) : Digits[i] = c

DigitVal(c) == (CHOOSE i \in 1..Len(Digits) : Digits[i] = c) - 1

RECURSIVE ParseDigits(_, _)
\* the accumulating loop of strconv.ParseUint in base 10
ParseDigits(s, acc) ==
    IF s = <<>> THEN acc
    ELSE ParseDigits(Tail(s), acc * 10 + DigitVal(Head(s)))

\* strconv.ParseInt(s, 10, 64) for values that fit: an optional sign followed
\* by at least one decimal digit and nothing else
ParseInt(s) ==
    LET signed == s # <<>> /\ Head(s) \in {"+", "-"}
        body   == IF signed THEN Tail(s) ELSE s
    IN  IF body = <<>> \/ \E i \in 1..Len(body) : ~IsDigit(body[i])
        THEN [val |-> 0, err |-> <<"strconv.ParseInt: invalid syntax">>]
        ELSE [val |-> IF signed /\ Head(s) = "-"
                      THEN 0 - ParseDigits(body, 0)
                      ELSE ParseDigits(body, 0),
              err |-> Nil]

btimeKey == <<"b", "t", "i", "m", "e">>

\* strings.HasPrefix(line, prefix)
HasPrefix(line, prefix) ==
    Len(line) >= Len(prefix) /\ SubSeq(line, 1, Len(prefix)) = prefix

RECURSIVE ScanLines(_, _)
\* the scanner loop of secondsSinceSystemBoot over the lines from index i on;
\* line[6:] panics when the line is shorter than 6 bytes
ScanLines(lines, i) ==
    IF i > Len(lines) THEN [seconds |-> 0, err |-> Nil, panic |-> FALSE]
    ELSE LET line == lines[i] IN
         IF HasPrefix(line, btimeKey)
         THEN IF Len(line) < 6
              THEN [seconds |-> 0, err |-> Nil, panic |-> TRUE]
              ELSE LET r == ParseInt(SubSeq(line, 7, Len(line))) IN
                   IF r.err # Nil
                   THEN [seconds |-> 0, err |-> r.err, panic |-> FALSE]
                   ELSE [seconds |-> r.val, err |-> Nil, panic |-> FALSE]
         ELSE ScanLines(lines, i + 1)

\* func (t *T67XX) secondsSinceSystemBoot() (int64, error)
secondsSinceSystemBoot(file) ==
    IF ~file.present
    THEN [seconds |-> 0, err |-> Nil, panic |-> FALSE]
    ELSE ScanLines(file.lines, 1)

\* the warm-up offset added to the boot time, in seconds
WarmupSeconds == 600

\* the subtraction taken the other way round: now minus the end of warm-up
secondsUntilFullAccuracyReversed(file, clock) ==
    LET b == secondsSinceSystemBoot(file) IN
    IF b.panic THEN [diff |-> 0, err |-> Nil, panic |-> TRUE]
    ELSE IF b.err # Nil
    THEN [diff |-> 0,
          err |-> Wrap(b.err, "could not get seconds since syetem boot"),
          panic |-> FALSE]
    ELSE [diff |-> clock - (b.seconds + WarmupSeconds) * TicksPerSecond,
          err |-> Nil, panic |-> FALSE]

\* func (t *T67XX) secondsUntilFullAccuracy() (time.Duration, error)
\* the duration is in ticks; clock is the value of time.Now()
secondsUntilFullAccuracy(file, clock) ==
    LET b == secondsSinceSystemBoot(file) IN
    IF b.panic THEN [diff |-> 0, err |-> Nil, panic |-> TRUE]
    ELSE IF b.err # Nil
    THEN [diff |-> 0,
          err |-> Wrap(b.err, "could not get seconds since syetem boot"),
          panic |-> FALSE]
    ELSE [diff |-> (b.seconds + WarmupSeconds) * TicksPerSecond - clock,
          err |-> Nil, panic |-> FALSE]

\* func (t *T67XX) SensorIsAtFullAccuracy() (bool, error)
SensorIsAtFullAccuracy(file, clock) ==
    LET u == secondsUntilFullAccuracy(file, clock) IN
    IF u.panic THEN [val |-> FALSE, err |-> Nil, panic |-> TRUE]
    ELSE IF u.err # Nil
    THEN [val |-> FALSE,
          err |-> Wrap(u.err, "could not determine the number of seconds until full sensor accuracy"),
          panic |-> FALSE]
    ELSE IF u.diff > 0
    THEN [val |-> TRUE, err |-> Nil, panic |-> FALSE]
    ELSE [val |-> FALSE, err |-> Nil, panic |-> FALSE]

-----------------------------------------------------------------------------
(* Command protocol driver (T67XX.go) *)

\* byte values a Device.Read may fill into a response buffer
SampleBytes == {0, 1, 4, 44, 128, 255}

\* error values the i2c device may return from Write or Read
BusErrors == {<<"i2c: EIO">>, <<"i2c: ENXIO">>}

\* outcome of one Device.Write or Device.Read: nil or a bus error
BusOutcomes == {Nil} \cup BusErrors

\* commandSleep = 10 * time.Millisecond, in milliseconds
commandSleep == 10

\* the literal 10 * time.Millisecond of GasPPM, in milliseconds
gasSleep == 10

\* time.Second, in milliseconds
Second == 1000

cmdFirmwareVersion == <<4, 19, 137, 0, 1>>

cmdGasPPM == <<4, 19, 139, 0, 1>>

cmdStatus == <<4, 19, 138, 0>>

cmdReset == <<5, 3, 232, 255, 0>>

cmdEnableABC == <<5, 3, 238, 255, 0>>

cmdSetAddress(a) == <<6, 15, 165, 0, a>>

statusBitData ==
    << BitValue(1, "Error condition"),
       BitValue(2, "Flash error"),
       BitValue(4, "Calibration error"),
       BitValue(256, "RS-232"),
       BitValue(512, "RS-485"),
       BitValue(1024, "I2C"),
       BitValue(2048, "Warm-up mode"),
       BitValue(32768, "Single point calibration") >>

\* t.Device.Write(data) returned err
WriteEv(data, err) == [kind |-> "write", data |-> data, n |-> Len(data), err |-> err]

\* time.Sleep(ms) returned
SleepEv(ms) == [kind |-> "sleep", data |-> <<>>, n |-> ms, err |-> Nil]

\* t.Device.Read(make([]byte, n)) returned err
ReadEv(n, err) == [kind |-> "read", data |-> <<>>, n |-> n, err |-> err]

\* the two bytes taken in little-endian order
LittleEndianUint16(b) == b[2] * 256 + b[1]

\* binary.BigEndian.Uint16(b)
BigEndianUint16(b) == b[1] * 256 + b[2]

RECURSIVE Join(_, _)
\* strings.Join(elems, sep), as the sequence of the pieces it concatenates
Join(elems, sep) ==
    IF elems = <<>> THEN <<>>
    ELSE IF Len(elems) = 1 THEN elems
    ELSE <<Head(elems), sep>> \o Join(Tail(elems), sep)

\* the caller is between two driver calls
Idle == pc = "idle"

\* a method starts: the record of the invocation is fresh
Begin(method, arg) ==
    /\ Idle
    /\ op' = method
    /\ address' = arg

\* return val, err from the current method
Return(val, err) ==
    /\ ret' = [val |-> val, err |-> err]
    /\ pc' = "idle"

\* a decode that takes the two bytes one position early
GasPPMDecodeWrongOffset(b) == b[2] * 256 + b[3]

\* the decode of GasPPM: int(b[2])*256 + int(b[3]) (Go indexes from 0)
GasPPMDecode(b) == b[3] * 256 + b[4]

\* GasPPM whose write is followed at once by the read, without the sleep
GasPPM_WriteNoSleep ==
    /\ Begin("GasPPM", 0)
    /\ \E e \in BusOutcomes :
        /\ trace' = <<WriteEv(cmdGasPPM, e)>>
        /\ IF e # Nil THEN Return(0, e)
           ELSE pc' = "read" /\ ret' = [val |-> 0, err |-> Nil]
    /\ resp' = <<>>
    /\ stdout' = <<>>
    /\ UNCHANGED <<timingVars, bitVars, concVars, exVars>>

\* GasPPM: write the command
GasPPM_Write ==
    /\ Begin("GasPPM", 0)
    /\ \E e \in BusOutcomes :
        /\ trace' = <<WriteEv(cmdGasPPM, e)>>
        /\ IF e # Nil THEN Return(0, e)
           ELSE pc' = "sleep" /\ ret' = [val |-> 0, err |-> Nil]
    /\ resp' = <<>>
    /\ stdout' = <<>>
    /\ UNCHANGED <<timingVars, bitVars, concVars, exVars>>

\* GasPPM: time.Sleep(10 * time.Millisecond)
GasPPM_Sleep ==
    /\ pc = "sleep" /\ op = "GasPPM"
    /\ trace' = Append(trace, SleepEv(gasSleep))
    /\ pc' = "read"
    /\ UNCHANGED <<op, address, resp, ret, stdout, timingVars, bitVars, concVars, exVars>>

\* GasPPM: read 4 bytes and decode
GasPPM_Read ==
    /\ pc = "read" /\ op = "GasPPM"
    /\ \E e \in BusOutcomes :
        /\ trace' = Append(trace, ReadEv(4, e))
        /\ IF e # Nil
           THEN Return(0, e) /\ resp' = <<0, 0, 0, 0>>
           ELSE \E b \in [1..4 -> SampleBytes] :
                    resp' = b /\ Return(GasPPMDecode(b), Nil)
    /\ UNCHANGED <<op, address, stdout, timingVars, bitVars, concVars, exVars>>

\* FirmwareVersion: write the command
FirmwareVersion_Write ==
    /\ Begin("FirmwareVersion", 0)
    /\ \E e \in BusOutcomes :
        /\ trace' = <<WriteEv(cmdFirmwareVersion, e)>>
        /\ IF e # Nil THEN Return(0, e)
           ELSE pc' = "sleep" /\ ret' = [val |-> 0, err |-> Nil]
    /\ resp' = <<>>
    /\ stdout' = <<>>
    /\ UNCHANGED <<timingVars, bitVars, concVars, exVars>>

\* FirmwareVersion: time.Sleep(commandSleep)
FirmwareVersion_Sleep ==
    /\ pc = "sleep" /\ op = "FirmwareVersion"
    /\ trace' = Append(trace, SleepEv(commandSleep))
    /\ pc' = "read"
    /\ UNCHANGED <<op, address, resp, ret, stdout, timingVars, bitVars, concVars, exVars>>

\* FirmwareVersion that returns the value decoded from the response
FirmwareVersion_ReadDecoding ==
    /\ pc = "read" /\ op = "FirmwareVersion"
    /\ \E e \in BusOutcomes :
        /\ trace' = Append(trace, ReadEv(4, e))
        /\ IF e # Nil
           THEN Return(0, e) /\ resp' = <<0, 0, 0, 0>>
           ELSE \E b \in [1..4 -> SampleBytes] :
                    resp' = b /\ Return(b[3] * 256 + b[4], Nil)
    /\ UNCHANGED <<op, address, stdout, timingVars, bitVars, concVars, exVars>>

\* FirmwareVersion: read 4 bytes, return the placeholder
FirmwareVersion_Read ==
    /\ pc = "read" /\ op = "FirmwareVersion"
    /\ \E e \in BusOutcomes :
        /\ trace' = Append(trace, ReadEv(4, e))
        /\ IF e # Nil
           THEN Return(0, e) /\ resp' = <<0, 0, 0, 0>>
           ELSE \E b \in [1..4 -> SampleBytes] :
                    resp' = b /\ Return(1, Nil)
    /\ UNCHANGED <<op, address, stdout, timingVars, bitVars, concVars, exVars>>

\* PrintStatus that does not look at the error of the write
PrintStatus_WriteIgnoringError ==
    /\ Begin("PrintStatus", 0)
    /\ \E e \in BusOutcomes :
        /\ trace' = <<WriteEv(cmdStatus, e)>>
        /\ pc' = "sleep" /\ ret' = [val |-> 0, err |-> Nil]
    /\ resp' = <<>>
    /\ stdout' = <<>>
    /\ UNCHANGED <<timingVars, bitVars, concVars, exVars>>

\* PrintStatus: write the command
PrintStatus_Write ==
    /\ Begin("PrintStatus", 0)
    /\ \E e \in BusOutcomes :
        /\ trace' = <<WriteEv(cmdStatus, e)>>
        /\ IF e # Nil THEN Return(0, e)
           ELSE pc' = "sleep" /\ ret' = [val |-> 0, err |-> Nil]
    /\ resp' = <<>>
    /\ stdout' = <<>>
    /\ UNCHANGED <<timingVars, bitVars, concVars, exVars>>

\* PrintStatus: time.Sleep(commandSleep)
PrintStatus_Sleep ==
    /\ pc = "sleep" /\ op = "PrintStatus"
    /\ trace' = Append(trace, SleepEv(commandSleep))
    /\ pc' = "read"
    /\ UNCHANGED <<op, address, resp, ret, stdout, timingVars, bitVars, concVars, exVars>>

\* PrintStatus: read 2 bytes, print the descriptions of the status bits
PrintStatus_Read ==
    /\ pc = "read" /\ op = "PrintStatus"
    /\ \E e \in BusOutcomes :
        /\ trace' = Append(trace, ReadEv(2, e))
        /\ IF e # Nil
           THEN Return(0, e) /\ resp' = <<0, 0>> /\ stdout' = <<>>
           ELSE \E b \in [1..2 -> SampleBytes] :
                    /\ resp' = b
                    /\ stdout' = <<"Status bits set: ">> \o
                           Join(ListDescriptions(BigEndianUint16(b), statusBitData), ", ")
                    /\ Return(0, Nil)
    /\ UNCHANGED <<op, address, timingVars, bitVars, concVars, exVars>>

\* Reset: one write, its error returned
Reset_Write ==
    /\ Begin("Reset", 0)
    /\ \E e \in BusOutcomes :
        /\ trace' = <<WriteEv(cmdReset, e)>>
        /\ Return(0, e)
    /\ resp' = <<>>
    /\ stdout' = <<>>
    /\ UNCHANGED <<timingVars, bitVars, concVars, exVars>>

\* EnableABC that reports success whatever the write returned
EnableABC_WriteDroppingError ==
    /\ Begin("EnableABC", 0)
    /\ \E e \in BusOutcomes :
        /\ trace' = <<WriteEv(cmdEnableABC, e)>>
        /\ Return(0, Nil)
    /\ resp' = <<>>
    /\ stdout' = <<>>
    /\ UNCHANGED <<timingVars, bitVars, concVars, exVars>>

\* EnableABC: one write, its error returned
EnableABC_Write ==
    /\ Begin("EnableABC", 0)
    /\ \E e \in BusOutcomes :
        /\ trace' = <<WriteEv(cmdEnableABC, e)>>
        /\ Return(0, e)
    /\ resp' = <<>>
    /\ stdout' = <<>>
    /\ UNCHANGED <<timingVars, bitVars, concVars, exVars>>

\* the bytes a caller may pass to SetAddress
Bytes == 0..255

\* a range test that is exclusive at the lower end
AddressOutOfRangeExclusive(a) == a <= 3 \/ a > 119

\* the range test of SetAddress: address < 0x03 || address > 0x77
AddressOutOfRange(a) == a < 3 \/ a > 119

\* SetAddress: the range check, then the address-change write.  An address out
\* of range goes to t.log.Fatalf, which ends the process.
SetAddress_Write ==
    /\ \E a \in Bytes :
        /\ Begin("SetAddress", a)
        /\ IF AddressOutOfRange(a)
           THEN /\ pc' = "exited"
                /\ trace' = <<>>
                /\ ret' = [val |-> 0, err |-> Nil]
           ELSE \E e \in BusOutcomes :
                /\ trace' = <<WriteEv(cmdSetAddress(a), e)>>
                /\ IF e # Nil THEN Return(0, e)
                   ELSE pc' = "sleep1" /\ ret' = [val |-> 0, err |-> Nil]
    /\ resp' = <<>>
    /\ stdout' = <<>>
    /\ UNCHANGED <<timingVars, bitVars, concVars, exVars>>

\* SetAddress that goes on to the reset without the first sleep
SetAddress_Sleep1Skipped ==
    /\ pc = "sleep1" /\ op = "SetAddress"
    /\ pc' = "reset"
    /\ UNCHANGED <<op, address, trace, resp, ret, stdout, timingVars, bitVars, concVars, exVars>>

\* SetAddress: the first time.Sleep(time.Second)
SetAddress_Sleep1 ==
    /\ pc = "sleep1" /\ op = "SetAddress"
    /\ trace' = Append(trace, SleepEv(Second))
    /\ pc' = "reset"
    /\ UNCHANGED <<op, address, resp, ret, stdout, timingVars, bitVars, concVars, exVars>>

\* SetAddress that goes on to the second sleep whatever Reset returned
SetAddress_ResetIgnoringError ==
    /\ pc = "reset" /\ op = "SetAddress"
    /\ \E e \in BusOutcomes :
        /\ trace' = Append(trace, WriteEv(cmdReset, e))
        /\ pc' = "sleep2" /\ UNCHANGED ret
    /\ UNCHANGED <<op, address, resp, stdout, timingVars, bitVars, concVars, exVars>>

\* SetAddress: t.Reset()
SetAddress_Reset ==
    /\ pc = "reset" /\ op = "SetAddress"
    /\ \E e \in BusOutcomes :
        /\ trace' = Append(trace, WriteEv(cmdReset, e))
        /\ IF e # Nil THEN Return(0, e)
           ELSE pc' = "sleep2" /\ UNCHANGED ret
    /\ UNCHANGED <<op, address, resp, stdout, timingVars, bitVars, concVars, exVars>>

\* SetAddress: the second time.Sleep(time.Second), then return nil
SetAddress_Sleep2 ==
    /\ pc = "sleep2" /\ op = "SetAddress"
    /\ trace' = Append(trace, SleepEv(Second))
    /\ Return(0, Nil)
    /\ UNCHANGED <<op, address, resp, stdout, timingVars, bitVars, concVars, exVars>>

-----------------------------------------------------------------------------
(* Specification of the protocol driver: one caller, one call at a time *)

\* no SleepUntilFullAccuracy call has been made
NoWait == [calledAt |-> 0, dur |-> 0, blocked |-> FALSE, returnedAt |-> 0]

DriverInit ==
    /\ pc = "idle"
    /\ op = "none"
    /\ address = 0
    /\ trace = <<>>
    /\ resp = <<>>
    /\ ret = [val |-> 0, err |-> Nil]
    /\ stdout = <<>>

TimingRest ==
    /\ procStat = Absent
    /\ now = 0
    /\ tpc = "idle"
    /\ tret = [val |-> FALSE, err |-> Nil, panic |-> FALSE]
    /\ results = <<>>
    /\ tcall = "none"
    /\ wait = NoWait

BitmaskRest ==
    /\ mask = 0
    /\ table = <<>>
    /\ test = 0
    /\ bret = [called |-> {}, isSet |-> FALSE, descriptions |-> <<>>, values |-> <<>>]

\* the execution contexts that share the driver
Contexts == {"A", "B"}

ConcurrentRest ==
    /\ cpc = [c \in Contexts |-> "idle"]
    /\ cop = [c \in Contexts |-> "none"]
    /\ ccalls = [c \in Contexts |-> 0]
    /\ bus = <<>>
    /\ serialized = TRUE

ExampleRest ==
    /\ started = FALSE
    /\ closed = FALSE
    /\ exited = FALSE
    /\ iter = "select"

Init == DriverInit /\ TimingRest /\ BitmaskRest /\ ConcurrentRest /\ ExampleRest

Next ==
    \/ GasPPM_Write
    \/ GasPPM_Sleep
    \/ GasPPM_Read
    \/ FirmwareVersion_Write
    \/ FirmwareVersion_Sleep
    \/ FirmwareVersion_Read
    \/ PrintStatus_Write
    \/ PrintStatus_Sleep
    \/ PrintStatus_Read
    \/ Reset_Write
    \/ EnableABC_Write
    \/ SetAddress_Write
    \/ SetAddress_Sleep1
    \/ SetAddress_Reset
    \/ SetAddress_Sleep2

Spec == Init /\ [][Next]_vars

-----------------------------------------------------------------------------
(* Specification of the accuracy timing: a fixed /proc/stat, an advancing   *)
(* clock and a caller that polls SensorIsAtFullAccuracy                     *)

cpuLine == <<"c", "p", "u", " ", "1", " ", "2">>

\* /proc/stat of a host booted 1000 s after the epoch
statBoot1000 == File(<<cpuLine, <<"b", "t", "i", "m", "e", " ", "1", "0", "0", "0">>>>)

\* /proc/stat of a host booted 86400 s after the epoch
statBoot86400 == File(<<cpuLine, <<"b", "t", "i", "m", "e", " ", "8", "6", "4", "0", "0">>>>)

\* /proc/stat with no btime line
statNoBtime == File(<<cpuLine>>)

\* /proc/stat whose btime line does not hold a decimal integer
statBadBtime == File(<<cpuLine, <<"b", "t", "i", "m", "e", " ", "x", "1">>>>)

\* /proc/stat whose btime line is the key and a blank
statEmptyBtime == File(<<cpuLine, <<"b", "t", "i", "m", "e", " ">>>>)

\* /proc/stat whose btime line is the key alone
statKeyOnly == File(<<cpuLine, btimeKey>>)

\* the boot-time sources explored
ProcStatFiles ==
    {Absent, statBoot1000, statBoot86400, statNoBtime,
     statBadBtime, statEmptyBtime, statKeyOnly}

\* the sources from which a boot time is read
ReadableBootFiles == {statBoot1000, statBoot86400}

\* end of the warm-up of the host described by file, in ticks
Deadline(file) ==
    (secondsSinceSystemBoot(file).seconds + WarmupSeconds) * TicksPerSecond

\* the clock values explored for file: WindowSecs around the end of the warm-up
ClockWindow(file) ==
    (Deadline(file) - WindowSecs * TicksPerSecond) ..
        (Deadline(file) + WindowSecs * TicksPerSecond)

DriverRest == DriverInit

TimingInit ==
    /\ procStat \in ProcStatFiles
    /\ now \in ClockWindow(procStat)
    /\ tpc = "idle"
    /\ tret = [val |-> FALSE, err |-> Nil, panic |-> FALSE]
    /\ results = <<>>
    /\ tcall = "none"
    /\ wait = NoWait

InitTiming ==
    DriverRest /\ TimingInit /\ BitmaskRest /\ ConcurrentRest /\ ExampleRest

\* the clock advances by one tick
Tick ==
    /\ tpc \in {"idle", "sleeping"}
    /\ now + 1 \in ClockWindow(procStat)
    /\ now' = now + 1
    /\ UNCHANGED <<procStat, tpc, tret, results, tcall, wait, driverVars, bitVars, concVars, exVars>>

\* the caller invokes SensorIsAtFullAccuracy; a panic ends the process
CallSensorIsAtFullAccuracy ==
    /\ tpc = "idle"
    /\ Len(results) < MaxCalls
    /\ LET r == SensorIsAtFullAccuracy(procStat, now) IN
        /\ tret' = r
        /\ tpc' = IF r.panic THEN "crashed" ELSE "idle"
        /\ results' = IF r.panic \/ r.err # Nil THEN results
                      ELSE Append(results,
                                  [at |-> now, val |-> r.val,
                                   diff |-> secondsUntilFullAccuracy(procStat, now).diff])
    /\ tcall' = "SensorIsAtFullAccuracy"
    /\ UNCHANGED <<procStat, now, wait, driverVars, bitVars, concVars, exVars>>

\* SleepUntilFullAccuracy that returns at once whatever time remains
SleepUntilFullAccuracy_CallNoSleep ==
    /\ tpc = "idle"
    /\ LET u == secondsUntilFullAccuracy(procStat, now) IN
        /\ tret' = [val |-> FALSE, err |-> Nil, panic |-> FALSE]
        /\ tpc' = "idle"
        /\ wait' = [calledAt |-> now, dur |-> 0, blocked |-> FALSE, returnedAt |-> now]
    /\ tcall' = "SleepUntilFullAccuracy"
    /\ UNCHANGED <<procStat, now, results, driverVars, bitVars, concVars, exVars>>

\* SleepUntilFullAccuracy up to its receive from time.After: the remaining
\* time is computed; an error is returned wrapped; a positive remainder arms
\* the timer and blocks; otherwise the method returns nil at once
SleepUntilFullAccuracy_Call ==
    /\ tpc = "idle"
    /\ LET u == secondsUntilFullAccuracy(procStat, now) IN
        IF u.panic
        THEN /\ tret' = [val |-> FALSE, err |-> Nil, panic |-> TRUE]
             /\ tpc' = "crashed"
             /\ wait' = NoWait
        ELSE IF u.err # Nil
        THEN /\ tret' = [val |-> FALSE,
                         err |-> Wrap(u.err, "could not determine the number of seconds until full sensor accuracy"),
                         panic |-> FALSE]
             /\ tpc' = "idle"
             /\ wait' = [calledAt |-> now, dur |-> 0, blocked |-> FALSE, returnedAt |-> now]
        ELSE IF u.diff > 0
        THEN /\ tret' = [val |-> FALSE, err |-> Nil, panic |-> FALSE]
             /\ tpc' = "sleeping"
             /\ wait' = [calledAt |-> now, dur |-> u.diff, blocked |-> TRUE, returnedAt |-> 0]
        ELSE /\ tret' = [val |-> FALSE, err |-> Nil, panic |-> FALSE]
             /\ tpc' = "idle"
             /\ wait' = [calledAt |-> now, dur |-> 0, blocked |-> FALSE, returnedAt |-> now]
    /\ tcall' = "SleepUntilFullAccuracy"
    /\ UNCHANGED <<procStat, now, results, driverVars, bitVars, concVars, exVars>>

\* SleepUntilFullAccuracy: the channel of time.After delivers once the
\* duration has elapsed; the method returns nil
SleepUntilFullAccuracy_Wake ==
    /\ tpc = "sleeping"
    /\ now >= wait.calledAt + wait.dur
    /\ tpc' = "idle"
    /\ wait' = [wait EXCEPT !.returnedAt = now]
    /\ UNCHANGED <<procStat, now, tret, results, tcall, driverVars, bitVars, concVars, exVars>>

NextTiming ==
    \/ Tick
    \/ CallSensorIsAtFullAccuracy
    \/ SleepUntilFullAccuracy_Call
    \/ SleepUntilFullAccuracy_Wake

SpecTiming == InitTiming /\ [][NextTiming]_vars

\* a caller that only queries SensorIsAtFullAccuracy as the clock advances
NextTimingQueries ==
    \/ Tick
    \/ CallSensorIsAtFullAccuracy

SpecTimingQueries == InitTiming /\ [][NextTimingQueries]_vars

\* a caller that only waits in SleepUntilFullAccuracy
NextTimingSleep ==
    \/ Tick
    \/ SleepUntilFullAccuracy_Call
    \/ SleepUntilFullAccuracy_Wake

\* the waiting caller with a clock that keeps advancing and a runtime that
\* delivers the timers that are due
SpecTimingLive ==
    InitTiming /\ [][NextTimingSleep]_vars
        /\ WF_vars(Tick) /\ WF_vars(SleepUntilFullAccuracy_Wake)

-----------------------------------------------------------------------------
(* Specification of the bit field decoder: the three methods applied to a  *)
(* mask, a table and a test pattern                                        *)

\* the table entries explored; 6 overlaps 2 and 4
Entries ==
    {BitValue(1, "d"), BitValue(2, "a"), BitValue(4, "b"),
     BitValue(6, "c"), BitValue(1024, "I2C")}

\* the tables explored: every sequence of at most MaxTableLen entries
Tables == UNION {[1..n -> Entries] : n \in 0..MaxTableLen}

\* the masks explored
Masks == (0..MaxMask) \cup {1024, 1030, 65535}

\* the patterns passed to IsSet
Tests == {0, 2, 6, 1030}

BitmaskInit ==
    /\ mask \in Masks
    /\ table \in Tables
    /\ test \in Tests
    /\ bret = [called |-> {}, isSet |-> FALSE, descriptions |-> <<>>, values |-> <<>>]

InitBitmask ==
    DriverRest /\ TimingRest /\ BitmaskInit /\ ConcurrentRest /\ ExampleRest

\* the caller evaluates mask.IsSet(test)
CallIsSet ==
    /\ "IsSet" \notin bret.called
    /\ bret' = [bret EXCEPT !.called = @ \cup {"IsSet"},
                            !.isSet = IsSet(mask, test)]
    /\ UNCHANGED <<mask, table, test, driverVars, timingVars, concVars, exVars>>

\* the caller evaluates mask.ListDescriptions(table)
CallListDescriptions ==
    /\ "ListDescriptions" \notin bret.called
    /\ bret' = [bret EXCEPT !.called = @ \cup {"ListDescriptions"},
                            !.descriptions = ListDescriptions(mask, table)]
    /\ UNCHANGED <<mask, table, test, driverVars, timingVars, concVars, exVars>>

\* the caller evaluates mask.ListValues(table)
CallListValues ==
    /\ "ListValues" \notin bret.called
    /\ bret' = [bret EXCEPT !.called = @ \cup {"ListValues"},
                            !.values = ListValues(mask, table)]
    /\ UNCHANGED <<mask, table, test, driverVars, timingVars, concVars, exVars>>

NextBitmask ==
    \/ CallIsSet
    \/ CallListDescriptions
    \/ CallListValues

SpecBitmask == InitBitmask /\ [][NextBitmask]_vars

-----------------------------------------------------------------------------
(* Specification of two execution contexts calling the read-after-write     *)
(* methods of one driver, with or without serialization by the callers      *)

\* most driver methods one context invokes
MaxConcurrentCalls == 1

\* the read-after-write methods of the driver
ReadAfterWrite == {"GasPPM", "FirmwareVersion", "PrintStatus"}

\* the command bytes the method writes
CommandOf(method) ==
    CASE method = "GasPPM" -> cmdGasPPM
      [] method = "FirmwareVersion" -> cmdFirmwareVersion
      [] method = "PrintStatus" -> cmdStatus

\* the length of the buffer the method reads
ResponseLengthOf(method) ==
    CASE method = "GasPPM" -> 4
      [] method = "FirmwareVersion" -> 4
      [] method = "PrintStatus" -> 2

\* t.Device.Write or t.Device.Read as the device sees it
BusEv(c, kind, method, data, n, err) ==
    [ctx |-> c, kind |-> kind, op |-> method, data |-> data, n |-> n, err |-> err]

\* the driver holds no lock: a context may enter a method whenever it likes,
\* unless the callers themselves run one operation at a time
MayEnter(c) ==
    serialized => \A o \in Contexts \ {c} : cpc[o] = "idle"

ConcurrentInit ==
    /\ cpc = [c \in Contexts |-> "idle"]
    /\ cop = [c \in Contexts |-> "none"]
    /\ ccalls = [c \in Contexts |-> 0]
    /\ bus = <<>>
    /\ serialized \in BOOLEAN

InitConcurrent ==
    DriverRest /\ TimingRest /\ BitmaskRest /\ ConcurrentInit /\ ExampleRest

\* a method that goes to its sleep without having written its command
ConcurrentWriteOmitted ==
    \E c \in Contexts, m \in ReadAfterWrite :
        /\ cpc[c] = "idle"
        /\ ccalls[c] < MaxConcurrentCalls
        /\ MayEnter(c)
        /\ cop' = [cop EXCEPT ![c] = m]
        /\ ccalls' = [ccalls EXCEPT ![c] = @ + 1]
        /\ cpc' = [cpc EXCEPT ![c] = "sleep"]
        /\ UNCHANGED <<bus, serialized, driverVars, timingVars, bitVars, exVars>>

\* a context enters GasPPM, FirmwareVersion or PrintStatus and writes the command
ConcurrentWrite ==
    \E c \in Contexts, m \in ReadAfterWrite :
        /\ cpc[c] = "idle"
        /\ ccalls[c] < MaxConcurrentCalls
        /\ MayEnter(c)
        /\ cop' = [cop EXCEPT ![c] = m]
        /\ ccalls' = [ccalls EXCEPT ![c] = @ + 1]
        /\ \E e \in BusOutcomes :
            /\ bus' = Append(bus, BusEv(c, "write", m, CommandOf(m), Len(CommandOf(m)), e))
            /\ cpc' = [cpc EXCEPT ![c] = IF e # Nil THEN "idle" ELSE "sleep"]
        /\ UNCHANGED <<serialized, driverVars, timingVars, bitVars, exVars>>

\* the context's time.Sleep(commandSleep) returns
ConcurrentSleep ==
    \E c \in Contexts :
        /\ cpc[c] = "sleep"
        /\ cpc' = [cpc EXCEPT ![c] = "read"]
        /\ UNCHANGED <<cop, ccalls, bus, serialized, driverVars, timingVars, bitVars, exVars>>

\* the context reads its response and returns
ConcurrentRead ==
    \E c \in Contexts :
        /\ cpc[c] = "read"
        /\ \E e \in BusOutcomes :
            bus' = Append(bus, BusEv(c, "read", cop[c], <<>>, ResponseLengthOf(cop[c]), e))
        /\ cpc' = [cpc EXCEPT ![c] = "idle"]
        /\ UNCHANGED <<cop, ccalls, serialized, driverVars, timingVars, bitVars, exVars>>

NextConcurrent ==
    \/ ConcurrentWrite
    \/ ConcurrentSleep
    \/ ConcurrentRead

SpecConcurrent == InitConcurrent /\ [][NextConcurrent]_vars

-----------------------------------------------------------------------------
(* Specification of examples/wait_for_full_accuracy.go: main enables ABC,   *)
(* launches a goroutine that runs SleepUntilFullAccuracy and closes          *)
(* accuracyChan, and loops over a select that reads GasPPM once the channel  *)
(* is closed                                                                 *)

\* the process is running: no log.Fatal and no panic so far
Alive == ~exited /\ tpc # "crashed"

\* main is at the select of its loop
AtSelect ==
    /\ started
    /\ pc = "idle"
    /\ iter = "select"
    /\ op = "GasPPM" => ret.err = Nil

\* the value bytes of the sensor's replies explored in the example
ExampleBytes == {1, 44}

\* what a GasPPM read leaves in its buffer in the example: a reply with the
\* function code 4 in its two leading bytes, or the zeroes of a failed read
ExampleReplies ==
    {<<4, 4, hi, lo>> : hi \in ExampleBytes, lo \in ExampleBytes}
        \cup {<<0, 0, 0, 0>>}

InitExample ==
    DriverInit /\ TimingInit /\ BitmaskRest /\ ConcurrentRest /\ ExampleRest

\* main: driver.EnableABC()
Main_EnableABC ==
    /\ Alive
    /\ op = "none"
    /\ EnableABC_Write

\* main: log.Fatal after a failed EnableABC
Main_EnableABCFatal ==
    /\ Alive
    /\ ~started /\ op = "EnableABC" /\ pc = "idle" /\ ret.err # Nil
    /\ exited' = TRUE
    /\ UNCHANGED <<started, closed, iter, driverVars, timingVars, bitVars, concVars>>

\* main: make the channel and launch the goroutine
Main_Go ==
    /\ Alive
    /\ ~started /\ op = "EnableABC" /\ pc = "idle" /\ ret.err = Nil
    /\ started' = TRUE
    /\ UNCHANGED <<closed, exited, iter, driverVars, timingVars, bitVars, concVars>>

\* goroutine: driver.SleepUntilFullAccuracy() up to its blocking receive
Background_Call ==
    /\ Alive
    /\ started /\ tcall = "none"
    /\ SleepUntilFullAccuracy_Call

\* goroutine: the timer is delivered and SleepUntilFullAccuracy returns
Background_Wake ==
    /\ Alive
    /\ SleepUntilFullAccuracy_Wake

\* goroutine: log.Fatal after an error of SleepUntilFullAccuracy
Background_Fatal ==
    /\ Alive
    /\ tcall = "SleepUntilFullAccuracy" /\ tpc = "idle" /\ tret.err # Nil
    /\ exited' = TRUE
    /\ UNCHANGED <<started, closed, iter, driverVars, timingVars, bitVars, concVars>>

\* goroutine: close(accuracyChan)
Background_Close ==
    /\ Alive
    /\ tcall = "SleepUntilFullAccuracy" /\ tpc = "idle" /\ tret.err = Nil
    /\ ~closed
    /\ closed' = TRUE
    /\ UNCHANGED <<started, exited, iter, driverVars, timingVars, bitVars, concVars>>

\* a select that takes the reading branch whether or not the channel is closed
Main_SelectReadyUnguarded ==
    /\ Alive
    /\ AtSelect
    /\ GasPPM_Write

\* main: the receive from the closed channel is ready; driver.GasPPM() begins
Main_SelectReady ==
    /\ Alive
    /\ AtSelect
    /\ closed
    /\ GasPPM_Write

\* main: GasPPM sleeps
Main_GasPPM_Sleep ==
    /\ Alive
    /\ started
    /\ GasPPM_Sleep

\* main: GasPPM reads and returns; the sensor's replies are drawn from
\* ExampleReplies
Main_GasPPM_Read ==
    /\ Alive
    /\ started
    /\ GasPPM_Read
    /\ resp' \in ExampleReplies

\* main: log.Fatal after a failed GasPPM
Main_GasPPMFatal ==
    /\ Alive
    /\ started /\ op = "GasPPM" /\ pc = "idle" /\ ret.err # Nil
    /\ exited' = TRUE
    /\ UNCHANGED <<started, closed, iter, driverVars, timingVars, bitVars, concVars>>

\* main: the channel is not closed, the select takes its default branch
Main_SelectDefault ==
    /\ Alive
    /\ AtSelect
    /\ ~closed
    /\ iter' = "default"
    /\ UNCHANGED <<started, closed, exited, driverVars, timingVars, bitVars, concVars>>

\* main: time.Sleep(10) at the end of the iteration, back to the select
Main_LoopSleep ==
    /\ Alive
    /\ iter = "default"
    /\ iter' = "select"
    /\ UNCHANGED <<started, closed, exited, driverVars, timingVars, bitVars, concVars>>

\* the steps of main
MainStep ==
    \/ Main_EnableABC
    \/ Main_EnableABCFatal
    \/ Main_Go
    \/ Main_SelectReady
    \/ Main_GasPPM_Sleep
    \/ Main_GasPPM_Read
    \/ Main_GasPPMFatal
    \/ Main_SelectDefault
    \/ Main_LoopSleep

\* the steps of the goroutine
BackgroundStep ==
    \/ Background_Call
    \/ Background_Wake
    \/ Background_Fatal
    \/ Background_Close

NextExample ==
    \/ Tick
    \/ MainStep
    \/ BackgroundStep

\* the clock advances, and the runtime schedules both goroutines and delivers
\* due timers
SpecExample ==
    InitExample /\ [][NextExample]_vars
        /\ WF_vars(Tick) /\ WF_vars(MainStep) /\ WF_vars(BackgroundStep)

-----------------------------------------------------------------------------
(* Properties of the accuracy timing (checked under SpecTiming) *)

\* the boot time, in seconds, written in each readable source
WrittenBootTime(file) == IF file = statBoot1000 THEN 1000 ELSE 86400

\* the remaining warm-up at clock value t: (boot time + 600 s) - t, in ticks
RemainingWarmup(file, t) == (WrittenBootTime(file) + 600) * TicksPerSecond - t

\* C1: SensorIsAtFullAccuracy returns true exactly when the remaining
\* warm-up, (boot time + 600 s) minus the current time, is <= 0: true at
\* T0+600 and later, false at T0+599 where one second remains.
C1_AccurateIffWarmupElapsed ==
    procStat \in ReadableBootFiles =>
        \A i \in 1..Len(results) :
            /\ results[i].val = (RemainingWarmup(procStat, results[i].at) <= 0)
            /\ RemainingWarmup(procStat, results[i].at) = TicksPerSecond
                   => results[i].val = FALSE

\* C2: with a fixed boot time and a clock that only increases, once a
\* SensorIsAtFullAccuracy call has returned true no later call returns false.
C2_NeverRegresses ==
    procStat \in ReadableBootFiles =>
        \A i, j \in 1..Len(results) :
            (i < j /\ results[i].val = TRUE) => results[j].val = TRUE

\* the indexes of the reads the device has seen
BusReads == {k \in 1..Len(bus) : bus[k].kind = "read"}

\* the read at index k comes right after the write of its own operation
ReadFollowsOwnWrite(k) ==
    /\ k > 1
    /\ bus[k - 1].kind = "write"
    /\ bus[k - 1].ctx = bus[k].ctx
    /\ bus[k - 1].op = bus[k].op
    /\ bus[k - 1].err = <<>>

\* the read at index k comes after the writes of both contexts, the other
\* context's write being the latest: it consumes the other command's response
ReadConsumesOtherResponse(k) ==
    /\ k > 2
    /\ bus[k - 1].kind = "write" /\ bus[k - 1].ctx # bus[k].ctx
    /\ bus[k - 2].kind = "write" /\ bus[k - 2].ctx = bus[k].ctx
    /\ \A i \in 1..(k - 1) : bus[i].kind = "write"

\* C15: the driver does not serialize the bus handle.  When the callers run
\* the operations one at a time every read directly follows the write of its
\* own operation; when two contexts call concurrently an interleaving with
\* both writes before either read is reachable (C15_Witness), and in it a
\* read consumes the response to the other operation's command.
C15_SerializedCallersOnly ==
    /\ serialized => \A k \in BusReads : ReadFollowsOwnWrite(k)
    /\ \A k \in BusReads :
           /\ bus[k].n = (IF bus[k].op = "PrintStatus" THEN 2 ELSE 4)
           /\ \E i \in 1..(k - 1) :
                  bus[i].kind = "write" /\ bus[i].ctx = bus[k].ctx /\ bus[i].err = <<>>
    /\ \A k \in BusReads : ReadConsumesOtherResponse(k) => ~serialized

\* GasPPM in one context and PrintStatus in the other, both writes made
\* before either read: the 4-byte read of GasPPM follows the status command
C15_Witness ==
    /\ ~serialized
    /\ \E k \in BusReads :
           /\ ReadConsumesOtherResponse(k)
           /\ bus[k].op = "GasPPM" /\ bus[k - 1].op = "PrintStatus"

\* SleepUntilFullAccuracy has been called and has returned
SleepReturned == tcall = "SleepUntilFullAccuracy" /\ tpc = "idle"

\* what C12 says of the state of a SleepUntilFullAccuracy invocation
C12_Blocking ==
    (procStat \in ReadableBootFiles /\ tcall = "SleepUntilFullAccuracy") =>
        LET remaining == RemainingWarmup(procStat, wait.calledAt) IN
        /\ tret.err = <<>> /\ ~tret.panic
        /\ remaining > 0 =>
               /\ wait.blocked
               /\ wait.dur = remaining
               /\ tpc = "idle" => wait.returnedAt >= wait.calledAt + remaining
        /\ remaining <= 0 =>
               /\ ~wait.blocked
               /\ tpc = "idle"
               /\ wait.returnedAt = wait.calledAt
        /\ tpc = "idle" => RemainingWarmup(procStat, wait.returnedAt) <= 0

\* C12: SleepUntilFullAccuracy blocks for exactly the remaining warm-up
\* computed at the call when that is > 0 and then returns without error, and
\* returns at once when it is <= 0; with an advancing clock it always
\* eventually returns, and when it returns the clock is at or past boot
\* time + 600 s.
C12_SleepUntilFullAccuracy ==
    /\ []C12_Blocking
    /\ (tpc = "sleeping") ~> (tpc = "idle")

\* SleepUntilFullAccuracy, called with one second left, has blocked and returned
C12_Witness ==
    /\ SleepReturned /\ procStat = statBoot1000
    /\ wait.blocked /\ wait.dur = TicksPerSecond
    /\ wait.returnedAt >= 1600 * TicksPerSecond

\* C13: when the boot-time source cannot be opened the boot time read is 0
\* with no error and counts as warm-up already elapsed: at every current time
\* at least 600 s after the epoch SensorIsAtFullAccuracy returns (true, nil)
\* and SleepUntilFullAccuracy returns at once with no error.
C13_AbsentSourceCountsAsWarm ==
    procStat = Absent =>
        /\ secondsSinceSystemBoot(procStat) = [seconds |-> 0, err |-> <<>>, panic |-> FALSE]
        /\ (tcall = "SensorIsAtFullAccuracy" /\ now >= 600 * TicksPerSecond
                /\ Len(results) >= 1 /\ results[Len(results)].at >= 600 * TicksPerSecond) =>
               (tret = [val |-> TRUE, err |-> <<>>, panic |-> FALSE]
                    /\ results[Len(results)].val = TRUE)
        /\ (tcall = "SleepUntilFullAccuracy" /\ wait.calledAt >= 600 * TicksPerSecond) =>
               /\ tpc = "idle"
               /\ ~wait.blocked
               /\ wait.returnedAt = wait.calledAt
               /\ tret.err = <<>>

\* the sources whose btime line does not hold a decimal integer
MalformedBootFiles == {statBadBtime, statEmptyBtime, statKeyOnly}

\* C14: when the source is readable and its btime line cannot be parsed as a
\* decimal integer (a line that is only the key included), the failure is an
\* error returned to the caller: SensorIsAtFullAccuracy returns (false, error),
\* SleepUntilFullAccuracy returns an error without blocking, and neither
\* crashes or reports an accuracy result.
C14_MalformedLineIsAnError ==
    (procStat \in MalformedBootFiles /\ tcall # "none") =>
        /\ tpc = "idle"
        /\ ~tret.panic
        /\ tret.err # <<>>
        /\ tret.val = FALSE
        /\ results = <<>>
        /\ ~wait.blocked

\* C17: once the remaining warm-up has been non-positive at a query it is
\* non-positive at every later query (fixed boot time, clock never going
\* back); before that it is positive and strictly decreases as the clock
\* advances.
C17_RemainingWarmupMonotone ==
    procStat \in ReadableBootFiles =>
        /\ \A i \in 1..Len(results) :
               results[i].diff = RemainingWarmup(procStat, results[i].at)
        /\ \A i, j \in 1..Len(results) :
               i < j =>
                   /\ results[i].at <= results[j].at
                   /\ results[i].diff <= 0 => results[j].diff <= 0
                   /\ results[j].diff > 0 => results[i].diff > 0
                   /\ (results[j].diff > 0 /\ results[i].at < results[j].at) =>
                          results[j].diff < results[i].diff

\* two queries while warming up with the clock advanced between them, then
\* one after the warm-up has elapsed
C17_Witness ==
    /\ procStat = statBoot86400 /\ Len(results) = 3
    /\ results[1].diff > results[2].diff /\ results[2].diff > 0
    /\ results[3].diff <= 0

-----------------------------------------------------------------------------
(* Properties of the wait-for-full-accuracy example (checked under           *)
(* SpecExample)                                                              *)

\* the boot time the example's host reports: the written one, or 0 when the
\* source is absent or has no btime line
ReportedBootTime(file) ==
    IF file \in ReadableBootFiles THEN WrittenBootTime(file) ELSE 0

\* no GasPPM call and no close of the channel before SleepUntilFullAccuracy
\* has returned without error, which is not before boot time + 600 s
C16_NoReadingBeforeWarm ==
    /\ closed =>
           /\ SleepReturned /\ tret.err = <<>> /\ ~tret.panic
           /\ procStat \notin MalformedBootFiles
           /\ wait.returnedAt >= (ReportedBootTime(procStat) + 600) * TicksPerSecond
           /\ now >= (ReportedBootTime(procStat) + 600) * TicksPerSecond
    /\ op = "GasPPM" => closed

\* no iteration begun once the channel is closed takes the default branch,
\* and a reading is performed
C16_ReadsOnceClosed ==
    /\ [][(closed /\ iter = "select") => iter' = "select"]_vars
    /\ closed ~> (op = "GasPPM" /\ Len(trace) >= 1)

\* a step of the background task (the call, the wake-up, the close) leaves
\* the bus and the driver's invocation alone: the bus operations are main's,
\* one at a time
C16_BackgroundDoesNoBusIO ==
    [][(tcall' # tcall \/ tpc' # tpc \/ closed' # closed)
           => UNCHANGED driverVars]_vars

\* the process has ended before the channel was closed only through a failed
\* EnableABC, an error of SleepUntilFullAccuracy, or a panic in the parsing
C16_EndsOnlyOnFailure ==
    (~Alive /\ ~closed) =>
        \/ ~started /\ op = "EnableABC" /\ ret.err # <<>>
        \/ started /\ procStat \in MalformedBootFiles
               /\ (tret.err # <<>> \/ tret.panic)

\* C16 as the specification states it: no reading before the warm-up is over,
\* once the background task runs the channel is eventually closed, every
\* iteration after that reads, and the background task does no bus I/O.
C16_ChannelAlwaysClosed ==
    /\ []C16_NoReadingBeforeWarm
    /\ started ~> closed
    /\ C16_ReadsOnceClosed
    /\ C16_BackgroundDoesNoBusIO

\* C16: in every interleaving of the example no GasPPM call happens before
\* SleepUntilFullAccuracy has returned without error, at boot time + 600 s or
\* later; the background task does no bus I/O; once the channel is closed
\* every iteration reads. The channel is eventually closed when EnableABC
\* succeeded and the boot-time line is well formed; otherwise the process
\* ends (log.Fatal on the error, or the panic of the parsing) with the
\* channel never closed and no reading made.
C16_WaitForFullAccuracy ==
    /\ []C16_NoReadingBeforeWarm
    /\ []C16_EndsOnlyOnFailure
    /\ (started /\ procStat \notin MalformedBootFiles) ~> closed
    /\ <>(closed \/ ~Alive)
    /\ C16_ReadsOnceClosed
    /\ C16_BackgroundDoesNoBusIO

\* the goroutine slept through the rest of the warm-up, closed the channel,
\* and main has made a reading
C16_Witness ==
    /\ closed /\ wait.blocked /\ procStat = statBoot1000
    /\ op = "GasPPM" /\ pc = "idle" /\ ret.err = <<>>
    /\ Len(trace) = 3 /\ trace[3].kind = "read"

-----------------------------------------------------------------------------
(* Properties of the protocol driver (checked under Spec) *)

\* the indexes of the events of the given kind in the current invocation
EventsOfKind(k) == {i \in 1..Len(trace) : trace[i].kind = k}

\* the current method has returned to its caller
Returned(method) == op = method /\ pc = "idle"

\* C3: SetAddress validates the address against [0x03, 0x77] before any bus
\* I/O: below 0x03 or above 0x77 the call is rejected and nothing is ever
\* written to the bus; inside the range the address-change command is written.
C3_AddressValidatedBeforeBusIO ==
    op = "SetAddress" =>
        /\ (address < 3 \/ address > 119) => (pc = "exited" /\ trace = <<>>)
        /\ (address >= 3 /\ address <= 119) =>
               /\ pc # "exited"
               /\ Len(trace) >= 1
               /\ trace[1].kind = "write"
               /\ trace[1].data = <<6, 15, 165, 0, address>>

\* the call with address 0x78 was rejected before any write
C3_Witness == op = "SetAddress" /\ address = 120 /\ pc = "exited" /\ trace = <<>>

\* C4: a successful SetAddress(A) does exactly: write 06 0f a5 00 A, wait 1 s,
\* write Reset 05 03 e8 ff 00, wait 1 s, return success.  The Reset write
\* never precedes the completed first wait and no read is ever issued.
C4_SetAddressSequence ==
    op = "SetAddress" =>
        /\ EventsOfKind("read") = {}
        /\ \A i \in 1..Len(trace) :
               (trace[i].kind = "write" /\ trace[i].data = <<5, 3, 232, 255, 0>>) =>
                   /\ i = 3
                   /\ trace[2].kind = "sleep" /\ trace[2].n = 1000
                   /\ trace[1].kind = "write" /\ trace[1].err = <<>>
        /\ (pc = "idle" /\ ret.err = <<>>) =>
               /\ Len(trace) = 4
               /\ trace[1] = [kind |-> "write", data |-> <<6, 15, 165, 0, address>>,
                              n |-> 5, err |-> <<>>]
               /\ trace[2] = [kind |-> "sleep", data |-> <<>>, n |-> 1000, err |-> <<>>]
               /\ trace[3] = [kind |-> "write", data |-> <<5, 3, 232, 255, 0>>,
                              n |-> 5, err |-> <<>>]
               /\ trace[4] = [kind |-> "sleep", data |-> <<>>, n |-> 1000, err |-> <<>>]

\* SetAddress(0x22) has returned success
C4_Witness ==
    Returned("SetAddress") /\ address = 34 /\ ret.err = <<>> /\ Len(trace) = 4

\* the command bytes the protocol table gives for a read-after-write method
TableCommand(method) ==
    CASE method = "GasPPM" -> <<4, 19, 139, 0, 1>>
      [] method = "FirmwareVersion" -> <<4, 19, 137, 0, 1>>
      [] method = "PrintStatus" -> <<4, 19, 138, 0>>

\* the response length the protocol table gives for a read-after-write method
TableResponseLength(method) ==
    CASE method = "GasPPM" -> 4
      [] method = "FirmwareVersion" -> 4
      [] method = "PrintStatus" -> 2

ReadAfterWriteMethods == {"GasPPM", "FirmwareVersion", "PrintStatus"}

\* C5: in GasPPM, FirmwareVersion and PrintStatus the steps occur in the
\* order: one write of the method's command bytes, the 10 ms delay, one read
\* of the method's response length.  No read before the completed delay, no
\* delay before the write returned successfully.
C5_WriteDelayRead ==
    op \in ReadAfterWriteMethods =>
        /\ Len(trace) >= 1 /\ Len(trace) <= 3
        /\ trace[1].kind = "write" /\ trace[1].data = TableCommand(op)
        /\ \A i \in 1..Len(trace) :
               /\ trace[i].kind = "write" => i = 1
               /\ trace[i].kind = "sleep" =>
                      i = 2 /\ trace[i].n = 10 /\ trace[1].err = <<>>
               /\ trace[i].kind = "read" =>
                      /\ i = 3
                      /\ trace[i].n = TableResponseLength(op)
                      /\ trace[2].kind = "sleep"
        /\ (pc = "idle" /\ ret.err = <<>>) =>
               (Len(trace) = 3 /\ trace[3].kind = "read" /\ trace[3].err = <<>>)

\* PrintStatus has returned after its write, its delay and its 2-byte read
C5_Witness ==
    /\ Returned("PrintStatus") /\ ret.err = <<>>
    /\ Len(trace) = 3 /\ trace[3].kind = "read" /\ trace[3].n = 2

FallibleMethods == {"GasPPM", "FirmwareVersion", "PrintStatus", "Reset", "EnableABC"}

\* C6: a bus write or read failure inside GasPPM, FirmwareVersion,
\* PrintStatus, Reset or EnableABC is returned as the error value the bus
\* produced, without retry: at most one write and at most one read per
\* invocation; after a failed write no delay and no read follow; the numeric
\* result is 0.
C6_ErrorsPropagatedUnchanged ==
    op \in FallibleMethods =>
        /\ Cardinality(EventsOfKind("write")) <= 1
        /\ Cardinality(EventsOfKind("read")) <= 1
        /\ \A i \in 1..Len(trace) :
               trace[i].err # <<>> =>
                   /\ i = Len(trace)
                   /\ pc = "idle"
                   /\ ret.err = trace[i].err
                   /\ ret.val = 0
        /\ (Len(trace) >= 1 /\ trace[1].err # <<>>) => Len(trace) = 1
        /\ (pc = "idle" /\ ret.err # <<>>) =>
               (Len(trace) >= 1 /\ trace[Len(trace)].err = ret.err)

\* GasPPM has returned the error of its failed read
C6_Witness ==
    /\ Returned("GasPPM") /\ Len(trace) = 3
    /\ trace[3].kind = "read" /\ trace[3].err = <<"i2c: EIO">>
    /\ ret = [val |-> 0, err |-> <<"i2c: EIO">>]

\* C10: for every 4-byte response b a successful GasPPM returns
\* b[2]*256 + b[3] with a nil error: the result depends on bytes 2 and 3
\* only, lies in 0..65535 and is 300 for [_, _, 0x01, 0x2C].
C10_GasPPMDecode ==
    (Returned("GasPPM") /\ Len(trace) = 3 /\ trace[3].err = <<>>) =>
        /\ ret.err = <<>>
        /\ Len(resp) = 4
        /\ ret.val = resp[3] * 256 + resp[4]
        /\ ret.val >= 0 /\ ret.val <= 65535
        /\ (resp[3] = 1 /\ resp[4] = 44) => ret.val = 300

\* GasPPM has returned 300 for a response whose first two bytes are not zero
C10_Witness ==
    /\ Returned("GasPPM") /\ Len(trace) = 3 /\ trace[3].err = <<>>
    /\ resp = <<255, 128, 1, 44>> /\ ret.val = 300

\* bit v (a power of two) is set in the 16-bit value m
BitIsSet(m, v) == (m \div v) % 2 = 1

\* the status flag table of the protocol: bit values and labels, in order
StatusTable ==
    << <<1, "Error condition">>, <<2, "Flash error">>, <<4, "Calibration error">>,
       <<256, "RS-232">>, <<512, "RS-485">>, <<1024, "I2C">>,
       <<2048, "Warm-up mode">>, <<32768, "Single point calibration">> >>

RECURSIVE LabelsFrom(_, _)
\* the labels, in table order from index i on, of the table bits set in m
LabelsFrom(m, i) ==
    IF i > Len(StatusTable) THEN <<>>
    ELSE IF BitIsSet(m, StatusTable[i][1])
    THEN <<StatusTable[i][2]>> \o LabelsFrom(m, i + 1)
    ELSE LabelsFrom(m, i + 1)

\* C11: for every 2-byte status response [hi, lo] PrintStatus decodes the
\* bitmask hi*256 + lo and lists, in status-table order, exactly the labels of
\* the table bits set in it; bits outside the table never change the list;
\* [0x04, 0x00] yields exactly ["I2C"].
C11_StatusDecode ==
    (Returned("PrintStatus") /\ Len(trace) = 3 /\ trace[3].err = <<>>) =>
        LET labels == LabelsFrom(resp[1] * 256 + resp[2], 1)
            n == Len(labels)
        IN  /\ ret.err = <<>>
            /\ Len(resp) = 2
            /\ Len(stdout) = IF n = 0 THEN 1 ELSE 2 * n
            /\ stdout[1] = "Status bits set: "
            /\ \A k \in 1..n : stdout[2 * k] = labels[k]
            /\ \A k \in 1..(n - 1) : stdout[2 * k + 1] = ", "
            /\ (resp = <<4, 0>>) => stdout = <<"Status bits set: ", "I2C">>

\* PrintStatus has printed the one label of the response [0x04, 0x00]
C11_Witness ==
    /\ Returned("PrintStatus") /\ Len(trace) = 3 /\ trace[3].err = <<>>
    /\ resp = <<4, 0>> /\ stdout = <<"Status bits set: ", "I2C">>

\* C18: Reset and EnableABC are fire-and-forget: exactly one bus write
\* (05 03 e8 ff 00 for Reset, 05 03 ee ff 00 for EnableABC), no settle delay,
\* no read, and success exactly when that write succeeded.
C18_FireAndForget ==
    op \in {"Reset", "EnableABC"} =>
        /\ pc = "idle"
        /\ Len(trace) = 1
        /\ trace[1].kind = "write"
        /\ trace[1].data = IF op = "Reset" THEN <<5, 3, 232, 255, 0>>
                           ELSE <<5, 3, 238, 255, 0>>
        /\ (ret.err = <<>>) <=> (trace[1].err = <<>>)

\* EnableABC has returned the error of its one failed write
C18_Witness ==
    /\ Returned("EnableABC") /\ Len(trace) = 1
    /\ trace[1].err = <<"i2c: ENXIO">> /\ ret.err = <<"i2c: ENXIO">>

\* C19: FirmwareVersion returns the placeholder 1 with no error after every
\* successful write and 4-byte read, whatever the response bytes, and 0 with
\* the error when the write or the read fails.
C19_FirmwarePlaceholder ==
    Returned("FirmwareVersion") =>
        /\ (Len(trace) = 3 /\ trace[1].err = <<>> /\ trace[3].err = <<>>) =>
               (ret = [val |-> 1, err |-> <<>>] /\ trace[3].n = 4 /\ Len(resp) = 4)
        /\ \A i \in 1..Len(trace) :
               trace[i].err # <<>> => ret = [val |-> 0, err |-> trace[i].err]
        /\ (ret.err = <<>>) => (Len(trace) = 3 /\ trace[3].err = <<>>)

\* FirmwareVersion has returned 1 for a response that does not hold a 1
C19_Witness ==
    /\ Returned("FirmwareVersion") /\ Len(trace) = 3 /\ trace[3].err = <<>>
    /\ resp = <<255, 128, 0, 44>> /\ ret = [val |-> 1, err |-> <<>>]

\* C20: SetAddress failure paths: a failed address-change write is returned
\* at once, with no wait and no Reset write; a failed Reset write is returned
\* after the first 1-second wait and the second wait is skipped.  In neither
\* case is success reported or a write repeated.
C20_SetAddressFailurePaths ==
    op = "SetAddress" =>
        /\ (Len(trace) >= 1 /\ trace[1].err # <<>>) =>
               /\ Len(trace) = 1
               /\ pc = "idle"
               /\ ret.err = trace[1].err
        /\ (Len(trace) >= 3 /\ trace[3].err # <<>>) =>
               /\ Len(trace) = 3
               /\ trace[1].kind = "write" /\ trace[1].err = <<>>
               /\ trace[2].kind = "sleep" /\ trace[2].n = 1000
               /\ trace[3].kind = "write"
               /\ pc = "idle"
               /\ ret.err = trace[3].err
        /\ Cardinality(EventsOfKind("write")) <= 2
        /\ \A i, j \in EventsOfKind("write") : i # j => trace[i].data # trace[j].data

\* SetAddress has returned the error of the failed Reset write
C20_Witness ==
    /\ Returned("SetAddress") /\ Len(trace) = 3
    /\ trace[3].data = <<5, 3, 232, 255, 0>> /\ trace[3].err = <<"i2c: EIO">>
    /\ ret.err = <<"i2c: EIO">>

-----------------------------------------------------------------------------
(* Properties of the bit field decoder (checked under SpecBitmask) *)

\* C7: for every mask M and pattern B, multi-bit patterns included,
\* IsSet(M, B) is true if and only if M & B == B.
C7_IsSetIffAllBitsPresent ==
    "IsSet" \in bret.called => (bret.isSet = (BitAnd(mask, test) = test))

RECURSIVE BitAndNot(_, _)
\* a with every bit of b cleared
BitAndNot(a, b) ==
    IF a = 0 THEN 0
    ELSE (a % 2) * (1 - (b % 2)) + 2 * BitAndNot(a \div 2, b \div 2)

RECURSIVE ReferenceWalk(_, _, _, _)
\* the reference walk: the indexes of the entries emitted from index i on,
\* an entry being emitted exactly when all its bits are in the remaining
\* mask, and exactly its bits being cleared from the remaining mask
ReferenceWalk(values, i, remaining, emitted) ==
    IF i > Len(values) THEN emitted
    ELSE IF BitAnd(remaining, values[i].value) = values[i].value
    THEN ReferenceWalk(values, i + 1, BitAndNot(remaining, values[i].value),
                       Append(emitted, i))
    ELSE ReferenceWalk(values, i + 1, remaining, emitted)

ReferenceIndexes == ReferenceWalk(table, 1, mask, <<>>)

\* C8: ListDescriptions and ListValues equal the reference algorithm (emit an
\* entry exactly when all of its bits are contained in the remaining mask,
\* then clear exactly those bits); every emitted entry's bits are a subset of
\* the original mask.
C8_EqualsReferenceWalk ==
    /\ "ListValues" \in bret.called =>
           /\ bret.values = [k \in 1..Len(ReferenceIndexes) |->
                                 table[ReferenceIndexes[k]].value]
           /\ \A k \in 1..Len(bret.values) :
                  BitAnd(mask, bret.values[k]) = bret.values[k]
    /\ "ListDescriptions" \in bret.called =>
           bret.descriptions = [k \in 1..Len(ReferenceIndexes) |->
                                    table[ReferenceIndexes[k]].description]

\* C9: the emitted entries are pairwise bit-disjoint; mask 0x6 with table
\* [(0x2,a),(0x4,b),(0x6,c)] gives [a,b], and with [(0x2,a),(0x6,c)] gives [a].
C9_EmittedEntriesDisjoint ==
    /\ "ListValues" \in bret.called =>
           \A i, j \in 1..Len(bret.values) :
               i < j => BitAnd(bret.values[i], bret.values[j]) = 0
    /\ "ListDescriptions" \in bret.called =>
           /\ (mask = 6 /\ table = <<BitValue(2, "a"), BitValue(4, "b"), BitValue(6, "c")>>)
                  => bret.descriptions = <<"a", "b">>
           /\ (mask = 6 /\ table = <<BitValue(2, "a"), BitValue(6, "c")>>)
                  => bret.descriptions = <<"a">>

RECURSIVE EntriesAt(_, _, _)
\* the entries of values at the indexes in S, from index i on, in table order
EntriesAt(values, S, i) ==
    IF i > Len(values) THEN <<>>
    ELSE IF i \in S THEN <<values[i]>> \o EntriesAt(values, S, i + 1)
    ELSE EntriesAt(values, S, i + 1)

\* the two results come from one selection of table entries, in table order
C21_OneSelection ==
    {"ListDescriptions", "ListValues"} \subseteq bret.called =>
        /\ Len(bret.descriptions) = Len(bret.values)
        /\ \E S \in SUBSET (1..Len(table)) :
               LET e == EntriesAt(table, S, 1) IN
               /\ Len(e) = Len(bret.values)
               /\ \A k \in 1..Len(e) :
                      /\ bret.descriptions[k] = e[k].description
                      /\ bret.values[k] = e[k].value

\* C21: for every mask and table, ListDescriptions and ListValues select the
\* same table entries in the same order (equal length, the i-th description
\* being the label of the entry that produced the i-th value), and neither
\* call modifies the mask or the table.
C21_SameEntriesSameOrder ==
    /\ []C21_OneSelection
    /\ [][mask' = mask /\ table' = table]_vars

\* both methods were applied to mask 0x2 and a table whose first entry
\* overlaps the mask without being contained in it: entries 1 and 3 selected
C21_Witness ==
    /\ {"ListDescriptions", "ListValues"} \subseteq bret.called
    /\ mask = 2
    /\ table = <<BitValue(6, "c"), BitValue(2, "a"), BitValue(4, "b")>>
    /\ bret.values = <<6, 4>>
    /\ bret.descriptions = <<"c", "b">>

====
